---- MODULE Spec2Model ----
(***************************************************************************)
(* Model of src/operators/qdrant_operator.rs: the three async functions    *)
(* that insert a point, update a point's privacy payload and search, each  *)
(* issuing requests to a Qdrant index through a shared client.             *)
(*                                                                         *)
(* The index itself is the external collaborator.  It is modelled as a map *)
(* collection -> point id -> payload; its operations follow the client     *)
(* capability described in section 6 of the specification.  Embedding      *)
(* vectors are never read or changed by the code paths modelled here and   *)
(* are left out of the stored point.                                       *)
(***************************************************************************)
EXTENDS Integers, Sequences, FiniteSets, TLC

(* ------------------------------ bounds --------------------------------- *)
NumIds == 1
NumAuthors == 2
NumProcs == 2
MaxResults == 2

(* ------------------------------ values --------------------------------- *)
Procs == 1..NumProcs

\* uuid::Uuid values of cards; PointIdStr is Uuid::to_string
Uuids == 1..NumIds
PointIdStr(u) == "card-" \o ToString(u)
PointIds == {PointIdStr(u) : u \in Uuids}

\* Option<uuid::Uuid> author ids, already in their to_string form
None == "None"
Authors == {"user-" \o ToString(i) : i \in 1..NumAuthors}
AuthorOpts == Authors \cup {None}
\* Uuid::default().to_string()
NilUuid == "00000000-0000-0000-0000-000000000000"
UnwrapOrDefault(a) == IF a = None THEN NilUuid ELSE a

\* the two collection names that occur in the source
DebateCards == "debate_cards"
DebateCardsHyphen == "debate-cards"
Collections == {DebateCards, DebateCardsHyphen}

\* results of the functions
Ok == "Ok"
ErrAuthor == "Private card must have an author"
ErrGet == "Failed getting card from qdrant"
ErrUpdate == "Failed updating card payload in qdrant"
ErrInsert == "Failed inserting card to qdrant"
ErrConn == "qdrant connection error"

(* ------------------------------ payloads ------------------------------- *)
\* A payload is a JSON object with the two keys the code reads.
\*   private : "missing" | "true" | "false" | "nonbool"
\*   akind   : "missing" | "notlist" | "list"   (shape of the "authors" value)
\*   authors : the list when akind = "list"; NonStr stands for a non-string element
NonStr == "<non-string>"
EmptyPayload == [private |-> "missing", akind |-> "missing", authors |-> <<>>]
PrivatePayload(list) == [private |-> "true", akind |-> "list", authors |-> list]

Range(s) == {s[i] : i \in 1..Len(s)}
Contains(s, x) == x \in Range(s)
NoDup(s) == \A i, j \in 1..Len(s) : i # j => s[i] # s[j]

\* json!({"private": true, "authors": vec![author.unwrap_or_default().to_string()]}) or json!({})
InsertPayloadNoDefault(private, author) ==
  IF private
    THEN PrivatePayload(IF author = None THEN <<>> ELSE <<author>>)
    ELSE EmptyPayload

InsertPayload(private, author) ==
  IF private THEN PrivatePayload(<<UnwrapOrDefault(author)>>) ELSE EmptyPayload

\* author.as_str() with the "" fallback
AsStr(e) == IF e = NonStr THEN "" ELSE e

RECURSIVE NonEmptyStrs(_)
NonEmptyStrs(s) ==
  IF s = <<>> THEN <<>>
  ELSE LET h == AsStr(Head(s)) IN
       IF h # "" THEN <<h>> \o NonEmptyStrs(Tail(s)) ELSE NonEmptyStrs(Tail(s))

\* current_author_ids read from the fetched payload
CurrentAuthorIds(pl) == IF pl.akind = "list" THEN NonEmptyStrs(pl.authors) ELSE <<>>

\* if !contains(author) { push(author) }
PushIfAbsent(list, a) == IF Contains(list, a) THEN list ELSE Append(list, a)

\* the payload built for the write-back
UpdatePayload(pl, private, author) ==
  IF private
    THEN PrivatePayload(PushIfAbsent(CurrentAuthorIds(pl), UnwrapOrDefault(author)))
    ELSE EmptyPayload

\* What the function does with the fetched points, up to the write-back:
\* vec is the result list of get_points.
DecideEmptyOk(vec, private, author) ==
  IF vec = <<>> THEN [pc |-> "done", res |-> Ok, payload |-> EmptyPayload]
  ELSE IF vec[1].private = "missing"
    THEN [pc |-> "done", res |-> ErrGet, payload |-> EmptyPayload]
  ELSE IF vec[1].private # "true"
    THEN [pc |-> "done", res |-> Ok, payload |-> EmptyPayload]
  ELSE [pc |-> "write", res |-> "", payload |-> UpdatePayload(vec[1], private, author)]

Decide(vec, private, author) ==
  IF vec = <<>> THEN [pc |-> "done", res |-> ErrGet, payload |-> EmptyPayload]
  ELSE IF vec[1].private = "missing"
    THEN [pc |-> "done", res |-> ErrGet, payload |-> EmptyPayload]
  ELSE IF vec[1].private # "true"
    THEN [pc |-> "done", res |-> Ok, payload |-> EmptyPayload]
  ELSE [pc |-> "write", res |-> "", payload |-> UpdatePayload(vec[1], private, author)]

(* --------------------------- the index client -------------------------- *)
\* idx[c][i] is <<>> when collection c holds no point i, else <<payload>>.
ClientUpsert(idx, c, i, pl) == [idx EXCEPT ![c][i] = <<pl>>]
ClientGet(idx, c, i) == idx[c][i]
ClientSetPayload(idx, c, i, pl) ==
  IF idx[c][i] = <<>> THEN idx ELSE [idx EXCEPT ![c][i] = <<pl>>]

(* ------------------------------- state --------------------------------- *)
VARIABLES
  index,      \* the stored points of every collection
  existing,   \* the collections that exist in the index
  proc,       \* one in-flight call of Insert / SetVisibility per caller
  srch        \* the last call of Search

vars == <<index, existing, proc, srch>>

Idle == [pc |-> "idle", op |-> "", id |-> "", private |-> FALSE, author |-> None,
         cur |-> <<>>, payload |-> EmptyPayload, reqs |-> <<>>, res |-> "",
         race |-> ""]

\* A call that has returned keeps its id, its requests and its result; one that
\* returned after its write-back also keeps its arguments.
\* race is history only: "first" / "last" mark two calls on one id of which the
\* first wrote while the other had fetched and not yet written.
Done(r, reqs, res) ==
  [Idle EXCEPT !.pc = "done", !.op = r.op, !.id = r.id, !.reqs = reqs, !.res = res]

Written(r, reqs, race) ==
  [Done(r, reqs, Ok) EXCEPT !.private = r.private, !.author = r.author, !.race = race]

Req(call, c, ok, n) == [call |-> call, coll |-> c, ok |-> ok, n |-> n]

\* points that may be in the index before the first call
LegacyAuthor == "user-0"
LegacyPayloads ==
  { EmptyPayload,
    [EmptyPayload EXCEPT !.private = "false"],
    [EmptyPayload EXCEPT !.private = "nonbool"],
    PrivatePayload(<<LegacyAuthor>>),
    PrivatePayload(<<LegacyAuthor, "user-1">>) }

NoSearch == [status |-> "none", page |-> <<>>, filter |-> "", reqs |-> <<>>,
             data |-> <<>>, out |-> <<>>]

Init ==
  /\ \E f \in [PointIds -> {<<>>} \cup {<<pl>> : pl \in LegacyPayloads}] :
       \E mode \in {"absent", "empty", "copy"} :
         /\ existing = IF mode = "absent" THEN {DebateCards} ELSE Collections
         /\ index = [c \in Collections |->
                       IF c = DebateCards \/ mode = "copy" THEN f
                       ELSE [i \in PointIds |-> <<>>]]
  /\ proc = [p \in Procs |-> Idle]
  /\ srch = NoSearch

(* ------------------------------ Insert --------------------------------- *)
\* create_new_qdrant_point_query: entry up to the upsert request
CallInsert(p, u, private, author) ==
  /\ proc[p].pc \in {"idle", "done"}
  /\ proc' = [proc EXCEPT ![p] =
       [Idle EXCEPT !.pc = "upsert", !.op = "insert", !.id = PointIdStr(u),
                    !.private = private, !.author = author,
                    !.payload = InsertPayload(private, author)]]
  /\ UNCHANGED <<index, existing, srch>>

\* the connection and the awaited upsert_points_blocking
Upsert(p) ==
  LET r == proc[p] IN
  /\ r.pc = "upsert"
  /\ \/ /\ proc' = [proc EXCEPT ![p] = Done(r, <<>>, ErrConn)]
        /\ UNCHANGED index
     \/ /\ proc' = [proc EXCEPT ![p] =
             Done(r, <<Req("upsert_points", DebateCards, FALSE, 0)>>, ErrInsert)]
        /\ UNCHANGED index
     \/ /\ DebateCards \in existing
        /\ index' = ClientUpsert(index, DebateCards, r.id, r.payload)
        /\ proc' = [proc EXCEPT ![p] =
             Done(r, <<Req("upsert_points", DebateCards, TRUE, 1)>>, Ok)]
  /\ UNCHANGED <<existing, srch>>

(* ---------------------------- SetVisibility ---------------------------- *)
\* update_qdrant_point_private_query: entry and the author check
CallUpdate(p, u, private, author) ==
  /\ proc[p].pc \in {"idle", "done"}
  /\ LET r == [Idle EXCEPT !.op = "update", !.id = PointIdStr(u),
                           !.private = private, !.author = author] IN
     proc' = [proc EXCEPT ![p] =
       IF private /\ author = None
         THEN Done(r, <<>>, ErrAuthor)
         ELSE [r EXCEPT !.pc = "fetch"]]
  /\ UNCHANGED <<index, existing, srch>>

\* the connection, the awaited get_points and everything up to set_payload
Fetch(p) ==
  LET r == proc[p] IN
  /\ r.pc = "fetch"
  /\ \/ proc' = [proc EXCEPT ![p] = Done(r, <<>>, ErrConn)]
     \/ proc' = [proc EXCEPT ![p] =
          Done(r, <<Req("get_points", DebateCards, FALSE, 0)>>, ErrGet)]
     \/ /\ DebateCards \in existing
        /\ LET vec == ClientGet(index, DebateCards, r.id)
               d == Decide(vec, r.private, r.author)
               reqs == <<Req("get_points", DebateCards, TRUE, Len(vec))>> IN
           proc' = [proc EXCEPT ![p] =
             IF d.pc = "done"
               THEN Done(r, reqs, d.res)
               ELSE [r EXCEPT !.pc = "write", !.cur = vec, !.payload = d.payload,
                              !.reqs = reqs]]
  /\ UNCHANGED <<index, existing, srch>>

\* the awaited set_payload and the return
Write(p) ==
  LET r == proc[p]
      c == DebateCardsHyphen
      others == {q \in Procs \ {p} : proc[q].pc = "write" /\ proc[q].id = r.id}
      mark == r.race = "" /\ others # {} IN
  /\ r.pc = "write"
  /\ \/ /\ proc' = [proc EXCEPT ![p] =
             Done(r, Append(r.reqs, Req("set_payload", c, FALSE, 0)), ErrUpdate)]
        /\ UNCHANGED index
     \/ /\ c \in existing
        /\ index' = ClientSetPayload(index, c, r.id, r.payload)
        /\ proc' = [q \in Procs |->
             IF q = p
               THEN Written(r, Append(r.reqs, Req("set_payload", c, TRUE, Len(index[c][r.id]))),
                            IF mark THEN "first" ELSE r.race)
             ELSE IF mark /\ q \in others /\ proc[q].race = ""
               THEN [proc[q] EXCEPT !.race = "last"]
             ELSE proc[q]]
  /\ UNCHANGED <<existing, srch>>

(* ------------------------------- Search -------------------------------- *)
\* A u64 is kept as its four 16-bit limbs, least significant first, so that
\* the arithmetic of the offset is done at the width the code does it.
Width == 64
Base == 2 ^ 16
NumLimbs == Width \div 16
\* limit: 10 and the factor of offset: (page - 1) * 10
Limit == 10
PerPage == 10

U64(n) == [i \in 1..NumLimbs |-> IF i = 1 THEN n ELSE 0]
MaxU64 == [i \in 1..NumLimbs |-> Base - 1]
\* the largest page whose offset fits: (2^64 - 1) \div 10 + 1, and its successor
LastFitPage == <<39322, 39321, 39321, 6553>>
FirstWrapPage == <<39323, 39321, 39321, 6553>>

Low(x) == SubSeq(x, 1, NumLimbs)
Top(x) == x[Len(x)]

\* x - b over the limbs; the last element of the result is the borrow out
RECURSIVE SubLimbs(_, _)
SubLimbs(x, b) ==
  IF x = <<>> THEN <<b>>
  ELSE LET t == Head(x) - b IN
       IF t < 0 THEN <<t + Base>> \o SubLimbs(Tail(x), 1)
                ELSE <<t>> \o SubLimbs(Tail(x), 0)

\* x * k + c over the limbs; the last element of the result is the carry out
RECURSIVE MulLimbs(_, _, _)
MulLimbs(x, k, c) ==
  IF x = <<>> THEN <<c>>
  ELSE LET t == Head(x) * k + c IN <<t % Base>> \o MulLimbs(Tail(x), k, t \div Base)

\* (page - 1) * 10 as the u64 expression evaluates: with overflow checks the
\* expression panics when it leaves the range, without them it wraps.
Offset(page, checks) ==
  LET d == SubLimbs(page, 1)
      m == MulLimbs(Low(d), PerPage, 0)
      out == Top(d) # 0 \/ Top(m) # 0 IN
  [panic |-> checks /\ out, value |-> Low(m)]

\* the point ids a search can return
IdNone == [kind |-> "none", str |-> ""]
IdNoOptions == [kind |-> "no_options", str |-> ""]
IdNum == [kind |-> "num", str |-> ""]
IdUuid(s) == [kind |-> "uuid", str |-> s]
Braced(u) == "{" \o PointIdStr(u) \o "}"
NotAUuid == "not-a-uuid"

\* uuid::Uuid::parse_str(..).ok(): <<u>> on success, <<>> otherwise
ParseStr(s) ==
  LET hit == {u \in Uuids : s = PointIdStr(u) \/ s = Braced(u)} IN
  IF hit = {} THEN <<>> ELSE <<CHOOSE u \in hit : TRUE>>

\* the closure of filter_map for one scored point
ToSearchResult(pt) ==
  IF pt.id.kind = "uuid" /\ ParseStr(pt.id.str) # <<>>
    THEN <<[score |-> pt.score, point_id |-> ParseStr(pt.id.str)[1]]>>
    ELSE <<>>

RECURSIVE FilterMapUntilBad(_)
FilterMapUntilBad(data) ==
  IF data = <<>> \/ ToSearchResult(Head(data)) = <<>> THEN <<>>
  ELSE ToSearchResult(Head(data)) \o FilterMapUntilBad(Tail(data))

RECURSIVE FilterMap(_)
FilterMap(data) ==
  IF data = <<>> THEN <<>> ELSE ToSearchResult(Head(data)) \o FilterMap(Tail(data))

Pages == {U64(0), U64(1), U64(2), U64(3), LastFitPage, FirstWrapPage, MaxU64}
Filters == {"public-only", "public-or-author"}
Scores == {1, 2}
SearchIds ==
  {IdNone, IdNoOptions, IdNum, IdUuid(NotAUuid)}
    \cup {IdUuid(PointIdStr(u)) : u \in Uuids} \cup {IdUuid(Braced(u)) : u \in Uuids}
ScoredPoints == [id : SearchIds, score : Scores]
SeqsUpTo(S, n) == UNION {[1..k -> S] : k \in 0..n}

SearchReq(filter, offset, ok, n) ==
  [call |-> "search_points", coll |-> DebateCards, limit |-> Limit,
   offset |-> offset, filter |-> filter, ok |-> ok, n |-> n]

\* search_qdrant_query: the connection and the SearchPoints request
CallSearch(page, filter, checks) ==
  LET o == Offset(page, checks)
      base == [NoSearch EXCEPT !.page = page, !.filter = filter] IN
  /\ srch.status # "searching"
  /\ \/ srch' = [base EXCEPT !.status = "err_conn"]
     \/ /\ o.panic
        /\ srch' = [base EXCEPT !.status = "panic"]
     \/ /\ ~o.panic
        /\ srch' = [base EXCEPT !.status = "searching",
                                !.reqs = <<SearchReq(filter, o.value, FALSE, 0)>>]
  /\ UNCHANGED <<index, existing, proc>>

\* search_qdrant_query: the awaited search_points and the filter_map
SearchDone ==
  /\ srch.status = "searching"
  /\ \/ srch' = [srch EXCEPT !.status = "err_search"]
     \/ \E data \in SeqsUpTo(ScoredPoints, MaxResults) :
          srch' = [srch EXCEPT !.status = "ok",
                               !.reqs = <<[srch.reqs[1] EXCEPT !.ok = TRUE, !.n = Len(data)]>>,
                               !.data = data, !.out = FilterMap(data)]
  /\ UNCHANGED <<index, existing, proc>>

InitSearch ==
  /\ existing = Collections
  /\ index = [c \in Collections |-> [i \in PointIds |-> <<>>]]
  /\ proc = [p \in Procs |-> Idle]
  /\ srch = NoSearch

NextSearch ==
  \/ \E page \in Pages, filter \in Filters, checks \in BOOLEAN : CallSearch(page, filter, checks)
  \/ SearchDone

SpecSearch == InitSearch /\ [][NextSearch]_vars

Next ==
  \/ \E p \in Procs, u \in Uuids, private \in BOOLEAN, author \in AuthorOpts :
       CallInsert(p, u, private, author)
  \/ \E p \in Procs : Upsert(p)
  \/ \E p \in Procs, u \in Uuids, private \in BOOLEAN, author \in AuthorOpts :
       CallUpdate(p, u, private, author)
  \/ \E p \in Procs : Fetch(p)
  \/ \E p \in Procs : Write(p)

Spec == Init /\ [][Next]_vars

\* the same calls made one after the other by a single caller
NextSeq ==
  \/ \E u \in Uuids, private \in BOOLEAN, author \in AuthorOpts :
       CallInsert(1, u, private, author)
  \/ Upsert(1)
  \/ \E u \in Uuids, private \in BOOLEAN, author \in AuthorOpts :
       CallUpdate(1, u, private, author)
  \/ Fetch(1)
  \/ Write(1)

SpecSeq == Init /\ [][NextSeq]_vars

(* ============================== claims ================================= *)
StoredPoint(idx, i) == ClientGet(idx, DebateCards, i)

\* p takes its Write step and returns Ok, and the point still is what p fetched
WroteOk(p) ==
  /\ proc[p].pc = "write" /\ proc'[p].pc = "done" /\ proc'[p].res = Ok
  /\ StoredPoint(index, proc[p].id) = proc[p].cur

\* C1: a successful SetVisibility(id, Private, author = B) on a point that is
\* Private with authors S leaves the point, as fetched again by id, Private
\* with authors exactly S \cup {B} and without duplicates.
C1_PrivateMergesAuthor ==
  [][\A p \in Procs :
       (WroteOk(p) /\ proc[p].private /\ NoDup(proc[p].cur[1].authors))
         => LET now == StoredPoint(index', proc[p].id) IN
            /\ now # <<>>
            /\ now[1].private = "true" /\ now[1].akind = "list"
            /\ Range(now[1].authors) = Range(proc[p].cur[1].authors) \cup {proc[p].author}
            /\ NoDup(now[1].authors)]_vars

\* C2: a successful SetVisibility(id, Public) on a Private point leaves the
\* point, as fetched again by id, with exactly the empty payload.
C2_PublicClearsPayload ==
  [][\A p \in Procs :
       (WroteOk(p) /\ ~proc[p].private)
         => StoredPoint(index', proc[p].id) = <<EmptyPayload>>]_vars

\* p takes its Fetch step and the index answers the get_points request
Fetched(p) ==
  /\ proc[p].pc = "fetch" /\ proc'[p].pc # "fetch"
  /\ proc'[p].reqs # <<>> /\ proc'[p].reqs[1].ok

\* C3: SetVisibility on an existing point whose "private" value is false,
\* missing or not a boolean returns Ok and changes nothing, whatever the
\* requested visibility.
C3_PublicPointNoOp ==
  [][\A p \in Procs :
       (/\ Fetched(p)
        /\ StoredPoint(index, proc[p].id) # <<>>
        /\ StoredPoint(index, proc[p].id)[1].private # "true")
         => /\ proc'[p].pc = "done" /\ proc'[p].res = Ok
            /\ Len(proc'[p].reqs) = 1
            /\ index' = index]_vars

\* C4: Insert with private = true and no author returns an error without
\* issuing any request to the index and without creating or changing a point.
C4_InsertValidatesAuthor ==
  [][\A p \in Procs :
       (/\ proc[p].pc = "upsert" /\ proc'[p].pc = "done"
        /\ proc[p].private /\ proc[p].author = None)
         => /\ proc'[p].res # Ok
            /\ proc'[p].reqs = <<>>
            /\ index' = index]_vars

\* C5: every request issued to the index (upsert, get_points, set_payload,
\* search_points) names one and the same collection.
C5_OneCollection ==
  LET named == UNION {{proc[p].reqs[k].coll : k \in 1..Len(proc[p].reqs)} : p \in Procs}
                 \cup {srch.reqs[k].coll : k \in 1..Len(srch.reqs)} IN
  Cardinality(named) <= 1

\* C6: every stored point whose payload has private = true carries a
\* non-empty list of authors.
C6_PrivateHasAuthors ==
  \A c \in Collections, i \in PointIds :
    (index[c][i] # <<>> /\ index[c][i][1].private = "true")
      => /\ index[c][i][1].akind = "list"
         /\ CurrentAuthorIds(index[c][i][1]) # <<>>

\* C6 witness: an Insert with private = true and no author has stored its point
C6_Witness ==
  \E p \in Procs :
    /\ proc[p].pc = "done" /\ proc[p].op = "insert" /\ proc[p].res = Ok
    /\ index[DebateCards][proc[p].id] = <<PrivatePayload(<<NilUuid>>)>>

\* C7: when the index returns no point for the id, SetVisibility returns the
\* read error, issues no set_payload and leaves the index as it was.
C7_MissingPointReadError ==
  [][\A p \in Procs :
       (Fetched(p) /\ StoredPoint(index, proc[p].id) = <<>>)
         => /\ proc'[p].pc = "done" /\ proc'[p].res = ErrGet
            /\ Len(proc'[p].reqs) = 1
            /\ index' = index]_vars

\* C7 witness: a call has returned the read error after get_points answered
\* with an empty list
C7_Witness ==
  \E p \in Procs :
    /\ proc[p].pc = "done" /\ proc[p].op = "update" /\ proc[p].res = ErrGet
    /\ Len(proc[p].reqs) = 1 /\ proc[p].reqs[1].ok /\ proc[p].reqs[1].n = 0
    /\ \A c \in Collections : index[c][proc[p].id] = <<>>

\* (page - 1) * 10 without a width: one more limb than a u64 has
ExactOffset(page) == MulLimbs(Low(SubLimbs(page, 1)), 10, 0)

\* C8: for every page >= 1 Search, once connected, issues exactly one
\* search_points request with limit 10, offset exactly (page - 1) * 10 and
\* the caller's filter.
C8_OffsetExact ==
  (srch.status \in {"searching", "ok", "err_search", "panic"} /\ srch.page # U64(0))
    => /\ Len(srch.reqs) = 1
       /\ srch.reqs[1].limit = 10
       /\ srch.reqs[1].offset \o <<0>> = ExactOffset(srch.page)
       /\ srch.reqs[1].filter = srch.filter

\* a scored point whose id is a string that parses as a uuid
Parseable(pt) ==
  pt.id.kind = "uuid" /\ \E u \in Uuids : pt.id.str \in {PointIdStr(u), Braced(u)}

\* C9: a successful Search returns exactly the results whose id parses as a
\* uuid, in the engine's order and each with the engine's score.
C9_ParseableSubsequence ==
  srch.status = "ok" =>
    LET keep == {i \in 1..Len(srch.data) : Parseable(srch.data[i])}
        nth(k) == CHOOSE i \in keep : Cardinality({j \in keep : j <= i}) = k IN
    /\ Len(srch.out) = Cardinality(keep)
    /\ \A k \in 1..Len(srch.out) :
         /\ srch.out[k].score = srch.data[nth(k)].score
         /\ srch.data[nth(k)].id.str
              \in {PointIdStr(srch.out[k].point_id), Braced(srch.out[k].point_id)}

\* C9 witness: a successful Search whose results hold an id that does not
\* parse before one that does
C9_Witness ==
  /\ srch.status = "ok" /\ Len(srch.data) = 2
  /\ ~Parseable(srch.data[1]) /\ Parseable(srch.data[2])
  /\ Len(srch.out) = 1

\* C10: when two SetVisibility(id, Private, _) calls with different authors,
\* neither among the point's authors, both fetch before either writes and both
\* return Ok, the point as fetched again after the second write holds the last
\* writer's payload, which lacks the first writer's author.
C10_LastWriterWins ==
  [][\A p, q \in Procs :
       (/\ proc[p].pc = "done" /\ proc[p].res = Ok /\ proc[p].race = "first"
        /\ proc[q].pc = "write" /\ proc[q].race = "last"
        /\ proc'[q].pc = "done" /\ proc'[q].res = Ok
        /\ proc[p].id = proc[q].id
        /\ proc[p].private /\ proc[q].private
        /\ proc[p].author # proc[q].author
        /\ ~Contains(proc[q].cur[1].authors, proc[p].author)
        /\ ~Contains(proc[q].cur[1].authors, proc[q].author))
         => /\ StoredPoint(index', proc[q].id) = <<proc[q].payload>>
            /\ ~Contains(StoredPoint(index', proc[q].id)[1].authors, proc[p].author)]_vars

====
